---- MODULE Spec2Model ----
(***************************************************************************)
(* DebugViewlet (src/vs/workbench/contrib/debug/browser/debugViewlet.ts):  *)
(* the viewlet object, the services it is injected with (debug service,    *)
(* configuration, progress service, menu service) and the panels attached  *)
(* to it, as one state machine.  Every handler of the class is one action; *)
(* the collaborators that live outside the file are modelled by what the   *)
(* specification says about them.                                          *)
(***************************************************************************)
EXTENDS Integers, Sequences, FiniteSets, TLC

\* ------------------------------------------------------------------ bounds
\* progressService.show() calls over the life of the viewlet
MaxRunners == 2
\* done() calls one progress handle receives
MaxDoneCalls == 2
\* panel changed-event subscriptions alive at the same time
MaxSubscriptions == 3
\* panels handed to one addPanels / removePanels call
MaxBatch == 2
\* largest finite body size of a panel
MaxBodySize == 2

\* --------------------------------------------------------------- constants
\* enum State of the debug service
States == {"Inactive", "Initializing", "Stopped", "Running"}

\* values of the setting debug.toolBarLocation
ToolBarLocations == {"docked", "floating", "hidden"}

BREAKPOINTS_VIEW_ID == "workbench.debug.breakPointsView"

VARIABLES_VIEW_ID == "workbench.debug.variablesView"

WATCH_VIEW_ID == "workbench.debug.watchExpressionsView"

\* The panels of the container.  View ids are unique within a container, so a
\* panel is named by its id.
Panels == {BREAKPOINTS_VIEW_ID, VARIABLES_VIEW_ID, WATCH_VIEW_ID}

\* Number.POSITIVE_INFINITY: above every finite body size.
POSITIVE_INFINITY == MaxBodySize + 1

\* an unset panel field (undefined)
Undefined == "undefined"

\* the classes of the four memoized actions
ActionKinds == {"StartAction", "ConfigureAction", "ToggleReplAction", "SelectAndStartAction"}

\* what the debug-toolbar menu may contribute: the contributed action ids
MenuContents == {<<"continue", "stop">>, <<"pause", "stepOver", "stop">>}

\* A disposable the viewlet created: an event subscription, an action
\* instance or a menu.
Resource(kind, of, n) == [kind |-> kind, of |-> of, n |-> n]

StateListener == Resource("listener", "onDidChangeState", 1)

WorkbenchStateListener == Resource("listener", "onDidChangeWorkbenchState", 1)

ConfigurationListener == Resource("listener", "onDidChangeConfiguration", 1)

Range(s) == {s[i] : i \in 1..Len(s)}

Max2(a, b) == IF a >= b THEN a ELSE b

\* sequences of distinct panels, 1..MaxBatch long: the argument of addPanels
\* and removePanels
Batches == {s \in UNION {[1..n -> Panels] : n \in 1..MaxBatch} :
              \A i, j \in 1..Len(s) : i # j => s[i] # s[j]}

VARIABLES
    \* debug service and configuration
    debugState,        \* debugService.state
    toolBarLocation,   \* configuration value debug.toolBarLocation
    menuItems,         \* what the debug-toolbar menu contributes now
    \* progress service
    runners,           \* handles returned by show(): [active, done]
    peakActive,        \* most indicators ever active at one program point
    \* fields of the viewlet
    progressRunner,    \* this.progressRunner: index into runners, 0 if unset
    breakpointView,    \* this.breakpointView
    panelListeners,    \* this.panelListeners: panel id -> subscription
    debugToolbarMenu,  \* this.debugToolbarMenu: a Resource, NoMenu if unset
    memo,              \* memoized getters: action kind -> instance no, 0 if unset
    toDispose,         \* resources registered for release on disposal
    disposed,          \* dispose() has run
    \* the host's view of the viewlet
    panels,            \* this.panels: the attached panels
    expanded,          \* panel.isExpanded()
    minimumBodySize,   \* panel.minimumBodySize
    maximumBodySize,   \* panel.maximumBodySize
    titleArea,         \* what the title area shows since its last refresh
    \* bookkeeping of the services
    live,              \* resources created by the viewlet and not disposed
    created,           \* action kind -> instances created
    menusCreated,      \* menuService.createMenu calls
    nonInitialCalls,   \* some getActions call found initial mode off
    call               \* the most recent operation, its arguments and result

vars == <<debugState, toolBarLocation, menuItems, runners, peakActive,
          progressRunner, breakpointView, panelListeners, debugToolbarMenu,
          memo, toDispose, disposed, panels, expanded, minimumBodySize,
          maximumBodySize, titleArea, live, created, menusCreated,
          nonInitialCalls, call>>

progressVars == <<runners, peakActive, progressRunner>>

panelVars == <<breakpointView, panelListeners, panels, expanded,
               minimumBodySize, maximumBodySize>>

Call(op, arg, val) == [op |-> op, arg |-> arg, val |-> val]

\* this.debugToolbarMenu before createMenu
NoMenu == Resource("none", "none", 0)

\* ------------------------------------------------- the disposable store
\* The part of the state the action getters read and write, as one value, so
\* that the calls of a handler compose.
Owned ==
    [memo |-> memo, created |-> created, debugToolbarMenu |-> debugToolbarMenu,
     menusCreated |-> menusCreated, toDispose |-> toDispose, live |-> live,
     nonInitialCalls |-> nonInitialCalls]

Store(o) ==
    /\ memo' = o.memo
    /\ created' = o.created
    /\ debugToolbarMenu' = o.debugToolbarMenu
    /\ menusCreated' = o.menusCreated
    /\ toDispose' = o.toDispose
    /\ live' = o.live
    /\ nonInitialCalls' = o.nonInitialCalls

\* this._register(r), this.toDispose.push(r)
Register(o, r) == [o EXCEPT !.toDispose = @ \cup {r}]

\* instantiationService.createInstance(kind, ...): a new action instance
CreateInstance(o, kind) ==
    LET n == o.created[kind] + 1
    IN  [o EXCEPT !.created[kind] = n,
                  !.memo[kind] = n,
                  !.live = @ \cup {Resource("action", kind, n)}]

\* a getter without @memoize: the body runs on every read
MemoizedNoCache(o, kind) ==
    LET c == CreateInstance(o, kind)
    IN  Register(c, Resource("action", kind, c.memo[kind]))

\* @memoize on a getter: the body runs on the first read only, later reads
\* return the cached instance.
Memoized(o, kind) ==
    IF o.memo[kind] # 0
    THEN o
    ELSE LET c == CreateInstance(o, kind)
         IN  Register(c, Resource("action", kind, c.memo[kind]))

\* the instance a getter hands out once it has run
Instance(o, kind) == Resource("action", kind, o.memo[kind])

startAction(o) == Memoized(o, "StartAction")

configureAction(o) == Memoized(o, "ConfigureAction")

toggleReplAction(o) == Memoized(o, "ToggleReplAction")

selectAndStartAction(o) == Memoized(o, "SelectAndStartAction")

\* showInitialDebugActions with the toolbar location left out
showInitialDebugActionsStateOnly(state, location) == state = "Inactive"

\* get showInitialDebugActions, for the debug state and the toolbar location
\* it reads
showInitialDebugActions(state, location) ==
    state = "Inactive" \/ location # "docked"

\* menuService.createMenu(MenuId.DebugToolbar, contextKeyService)
CreateMenu(o) ==
    LET n == o.menusCreated + 1
    IN  [o EXCEPT !.menusCreated = n,
                  !.debugToolbarMenu = Resource("menu", "DebugToolbar", n),
                  !.live = @ \cup {Resource("menu", "DebugToolbar", n)}]

\* DebugToolbar.getActions(menu, ...): the actions the menu contributes
DebugToolbarGetActions(menu, items) ==
    [i \in 1..Len(items) |-> Resource("menuItemAction", items[i], menu.n)]

\* getActions that, once the menu exists, returns the menu's actions whatever
\* the mode
getActionsStickyMenu(o, state, location, items) ==
    LET seen == [o EXCEPT !.nonInitialCalls =
                     @ \/ (state # "Inactive" /\ location = "docked")]
    IN  IF showInitialDebugActions(state, location) /\ seen.debugToolbarMenu = NoMenu
        THEN LET o3 == toggleReplAction(configureAction(startAction(seen)))
             IN  [val |-> <<Instance(o3, "StartAction"),
                            Instance(o3, "ConfigureAction"),
                            Instance(o3, "ToggleReplAction")>>,
                  o |-> o3]
        ELSE LET o1 == IF seen.debugToolbarMenu = NoMenu
                       THEN LET m == CreateMenu(seen)
                            IN  Register(m, m.debugToolbarMenu)
                       ELSE seen
             IN  [val |-> DebugToolbarGetActions(o1.debugToolbarMenu, items),
                  o |-> o1]

\* getActions without the test of this.debugToolbarMenu: a menu per call
getActionsNewMenu(o, state, location, items) ==
    LET seen == [o EXCEPT !.nonInitialCalls =
                     @ \/ (state # "Inactive" /\ location = "docked")]
    IN  IF showInitialDebugActions(state, location)
        THEN LET o3 == toggleReplAction(configureAction(startAction(seen)))
             IN  [val |-> <<Instance(o3, "StartAction"),
                            Instance(o3, "ConfigureAction"),
                            Instance(o3, "ToggleReplAction")>>,
                  o |-> o3]
        ELSE LET m == CreateMenu(seen)
                 o1 == Register(m, m.debugToolbarMenu)
             IN  [val |-> DebugToolbarGetActions(o1.debugToolbarMenu, items),
                  o |-> o1]

\* getActions(): [val |-> the actions returned, o |-> the store afterwards]
getActions(o, state, location, items) ==
    LET seen == [o EXCEPT !.nonInitialCalls =
                     @ \/ (state # "Inactive" /\ location = "docked")]
    IN  IF showInitialDebugActions(state, location)
        THEN LET o3 == toggleReplAction(configureAction(startAction(seen)))
             IN  [val |-> <<Instance(o3, "StartAction"),
                            Instance(o3, "ConfigureAction"),
                            Instance(o3, "ToggleReplAction")>>,
                  o |-> o3]
        ELSE LET o1 == IF seen.debugToolbarMenu = NoMenu
                       THEN LET m == CreateMenu(seen)
                            IN  Register(m, m.debugToolbarMenu)
                       ELSE seen
             IN  [val |-> DebugToolbarGetActions(o1.debugToolbarMenu, items),
                  o |-> o1]

\* getSecondaryActions that looks at the debug state only
getSecondaryActionsStateOnly(o, state, location) ==
    IF state = "Inactive"
    THEN [val |-> <<>>, o |-> o]
    ELSE LET o3 == toggleReplAction(configureAction(selectAndStartAction(o)))
         IN  [val |-> <<Instance(o3, "SelectAndStartAction"),
                        Instance(o3, "ConfigureAction"),
                        Instance(o3, "ToggleReplAction")>>,
              o |-> o3]

\* getSecondaryActions()
getSecondaryActions(o, state, location) ==
    IF showInitialDebugActions(state, location)
    THEN [val |-> <<>>, o |-> o]
    ELSE LET o3 == toggleReplAction(configureAction(selectAndStartAction(o)))
         IN  [val |-> <<Instance(o3, "SelectAndStartAction"),
                        Instance(o3, "ConfigureAction"),
                        Instance(o3, "ToggleReplAction")>>,
              o |-> o3]

\* updateTitleArea() of the base class: the action bar is refreshed, the host
\* asks for both action sets again and shows them.
updateTitleArea(o, state, location, items) ==
    LET primary == getActions(o, state, location, items)
        secondary == getSecondaryActions(primary.o, state, location)
    IN  [shows |-> IF showInitialDebugActions(state, location)
                   THEN "initial" ELSE "toolbar",
         o |-> secondary.o]

\* ------------------------------------------------------ progress service
NumActive(rs) == Cardinality({i \in 1..Len(rs) : rs[i].active})

\* progressRunner.done()
Done(rs, h) == [rs EXCEPT ![h].active = FALSE, ![h].done = @ + 1]

\* progressService.show(true): a new handle, the last of the sequence
Show(rs) == Append(rs, [active |-> TRUE, done |-> 0])

\* onDebugServiceStateChange without the call of done()
onDebugServiceStateChangeNoDone(state) ==
    LET shown == IF state = "Initializing" THEN Show(runners) ELSE runners
        title == IF toolBarLocation = "docked"
                 THEN updateTitleArea(Owned, state, toolBarLocation, menuItems)
                 ELSE [shows |-> titleArea, o |-> Owned]
    IN  /\ runners' = shown
        /\ progressRunner' = IF state = "Initializing" THEN Len(shown)
                                                       ELSE progressRunner
        /\ peakActive' = Max2(peakActive, NumActive(shown))
        /\ titleArea' = title.shows
        /\ Store(title.o)

\* onDebugServiceStateChange with done() called only when a new indicator is
\* about to be shown
onDebugServiceStateChangeDoneOnShow(state) ==
    LET ended == IF progressRunner # 0 /\ state = "Initializing"
                 THEN Done(runners, progressRunner)
                 ELSE runners
        shown == IF state = "Initializing" THEN Show(ended) ELSE ended
        title == IF toolBarLocation = "docked"
                 THEN updateTitleArea(Owned, state, toolBarLocation, menuItems)
                 ELSE [shows |-> titleArea, o |-> Owned]
    IN  /\ runners' = shown
        /\ progressRunner' = IF state = "Initializing" THEN Len(shown)
                                                       ELSE progressRunner
        /\ peakActive' = Max2(peakActive, Max2(NumActive(ended), NumActive(shown)))
        /\ titleArea' = title.shows
        /\ Store(title.o)

\* onDebugServiceStateChange without the refresh of the title area
onDebugServiceStateChangeNoRefresh(state) ==
    LET ended == IF progressRunner # 0 THEN Done(runners, progressRunner)
                                       ELSE runners
        shown == IF state = "Initializing" THEN Show(ended) ELSE ended
    IN  /\ runners' = shown
        /\ progressRunner' = IF state = "Initializing" THEN Len(shown)
                                                       ELSE progressRunner
        /\ peakActive' = Max2(peakActive, Max2(NumActive(ended), NumActive(shown)))
        /\ titleArea' = titleArea
        /\ Store(Owned)

\* onDebugServiceStateChange(state); debugService.state is already `state`
onDebugServiceStateChange(state) ==
    LET ended == IF progressRunner # 0 THEN Done(runners, progressRunner)
                                       ELSE runners
        shown == IF state = "Initializing" THEN Show(ended) ELSE ended
        title == IF toolBarLocation = "docked"
                 THEN updateTitleArea(Owned, state, toolBarLocation, menuItems)
                 ELSE [shows |-> titleArea, o |-> Owned]
    IN  /\ runners' = shown
        /\ progressRunner' = IF state = "Initializing" THEN Len(shown)
                                                       ELSE progressRunner
        /\ peakActive' = Max2(peakActive, Max2(NumActive(ended), NumActive(shown)))
        /\ titleArea' = title.shows
        /\ Store(title.o)

\* The debug service moves to `state` and fires onDidChangeState.
DidChangeState(state) ==
    /\ state = "Initializing" => Len(runners) < MaxRunners
    /\ progressRunner # 0 => runners[progressRunner].done < MaxDoneCalls
    /\ debugState' = state
    /\ call' = Call("onDidChangeState", state, <<>>)
    /\ IF StateListener \in live
       THEN onDebugServiceStateChange(state)
       ELSE UNCHANGED <<progressVars, titleArea, memo, created,
                        debugToolbarMenu, menusCreated, toDispose, live,
                        nonInitialCalls>>
    /\ UNCHANGED <<toolBarLocation, menuItems, disposed, panelVars>>

\* The listener of the constructor on onDidChangeConfiguration, for a change
\* that affects debug.toolBarLocation
onDidChangeConfiguration(location) ==
    LET title == updateTitleArea(Owned, debugState, location, menuItems)
    IN  /\ titleArea' = title.shows
        /\ Store(title.o)

\* The setting debug.toolBarLocation changes to `location`.
DidChangeConfiguration(location) ==
    /\ location # toolBarLocation
    /\ toolBarLocation' = location
    /\ call' = Call("onDidChangeConfiguration", location, <<>>)
    /\ IF ConfigurationListener \in live
       THEN onDidChangeConfiguration(location)
       ELSE UNCHANGED <<titleArea, memo, created, debugToolbarMenu,
                        menusCreated, toDispose, live, nonInitialCalls>>
    /\ UNCHANGED <<debugState, menuItems, progressVars, disposed, panelVars>>

\* The listener of the constructor on onDidChangeWorkbenchState
DidChangeWorkbenchState ==
    /\ WorkbenchStateListener \in live
    /\ LET title == updateTitleArea(Owned, debugState, toolBarLocation, menuItems)
       IN  /\ titleArea' = title.shows
           /\ Store(title.o)
    /\ call' = Call("onDidChangeWorkbenchState", <<>>, <<>>)
    /\ UNCHANGED <<debugState, toolBarLocation, menuItems, progressVars,
                   disposed, panelVars>>

\* The contributions to the debug-toolbar menu change.
MenuDidChange(items) ==
    /\ items # menuItems
    /\ menuItems' = items
    /\ call' = Call("menuDidChange", items, <<>>)
    /\ UNCHANGED <<debugState, toolBarLocation, progressVars, disposed,
                   panelVars, titleArea, memo, created, debugToolbarMenu,
                   menusCreated, toDispose, live, nonInitialCalls>>

\* The host calls getActions().
GetActions ==
    /\ ~disposed
    /\ LET r == getActions(Owned, debugState, toolBarLocation, menuItems)
       IN  /\ Store(r.o)
           /\ call' = Call("getActions", <<>>, r.val)
    /\ UNCHANGED <<debugState, toolBarLocation, menuItems, progressVars,
                   disposed, panelVars, titleArea>>

\* The host calls getSecondaryActions().
GetSecondaryActions ==
    /\ ~disposed
    /\ LET r == getSecondaryActions(Owned, debugState, toolBarLocation)
       IN  /\ Store(r.o)
           /\ call' = Call("getSecondaryActions", <<>>, r.val)
    /\ UNCHANGED <<debugState, toolBarLocation, menuItems, progressVars,
                   disposed, panelVars, titleArea>>

\* ----------------------------------------------------------------- panels
\* The part of the state addPanels and removePanels write, as one value; ran
\* records that the sizing rule wrote a size.
PanelState ==
    [breakpointView |-> breakpointView, maximumBodySize |-> maximumBodySize,
     panelListeners |-> panelListeners, live |-> live, ran |-> FALSE]

StorePanels(st) ==
    /\ breakpointView' = st.breakpointView
    /\ maximumBodySize' = st.maximumBodySize
    /\ panelListeners' = st.panelListeners
    /\ live' = st.live

PanelSubscriptions(lv) == {r \in lv : r.kind = "panelListener"}

\* panel.onDidChange(listener): a new subscription of the panel's event
Subscribe(lv, panel) ==
    Resource("panelListener", panel,
             CHOOSE n \in 1..(Cardinality(lv) + 1) :
                 /\ Resource("panelListener", panel, n) \notin lv
                 /\ \A m \in 1..(n - 1) : Resource("panelListener", panel, m) \in lv)

\* Map.set(key, value)
MapSet(map, key, value) ==
    [k \in DOMAIN map \cup {key} |-> IF k = key THEN value ELSE map[k]]

\* Map.delete(key)
MapDelete(map, key) == [k \in DOMAIN map \ {key} |-> map[k]]

\* updateBreakpointsMaxSize with some() where the code has every()
updateBreakpointsMaxSizeSome(st, attached, isExpanded) ==
    IF st.breakpointView # Undefined
    THEN LET allOtherCollapsed ==
                 \E view \in attached :
                     ~isExpanded[view] \/ view = st.breakpointView
         IN  [st EXCEPT !.maximumBodySize[st.breakpointView] =
                            IF allOtherCollapsed
                            THEN POSITIVE_INFINITY
                            ELSE minimumBodySize[st.breakpointView],
                        !.ran = TRUE]
    ELSE st

\* updateBreakpointsMaxSize(), with this.panels and the panels' isExpanded()
updateBreakpointsMaxSize(st, attached, isExpanded) ==
    IF st.breakpointView # Undefined
    THEN LET allOtherCollapsed ==
                 \A view \in attached :
                     ~isExpanded[view] \/ view = st.breakpointView
         IN  [st EXCEPT !.maximumBodySize[st.breakpointView] =
                            IF allOtherCollapsed
                            THEN POSITIVE_INFINITY
                            ELSE minimumBodySize[st.breakpointView],
                        !.ran = TRUE]
    ELSE st

\* super.addPanels(panels): the panels are attached
superAddPanels(attached, batch) == attached \cup Range(batch)

\* super.removePanels(panels): the panels are detached
superRemovePanels(attached, batch) == attached \ Range(batch)

\* one round of the loop of addPanels
addPanel(st, panel, attached, isExpanded) ==
    IF panel = BREAKPOINTS_VIEW_ID
    THEN updateBreakpointsMaxSize([st EXCEPT !.breakpointView = panel],
                                  attached, isExpanded)
    ELSE LET sub == Subscribe(st.live, panel)
         IN  [st EXCEPT !.panelListeners = MapSet(@, panel, sub),
                        !.live = @ \cup {sub}]

RECURSIVE addPanelsLoop(_, _, _, _, _)
addPanelsLoop(st, batch, i, attached, isExpanded) ==
    IF i > Len(batch)
    THEN st
    ELSE addPanelsLoop(addPanel(st, batch[i], attached, isExpanded),
                       batch, i + 1, attached, isExpanded)

\* addPanels(panels): [attached, st] afterwards
addPanels(st, batch, attached, isExpanded) ==
    LET all == superAddPanels(attached, batch)
    IN  [attached |-> all,
         st |-> addPanelsLoop(st, batch, 1, all, isExpanded)]

\* the loop of removePanels without the call of dispose
removePanelKeepsSubscription(st, panel) ==
    [st EXCEPT !.panelListeners = MapDelete(@, panel)]

\* the loop of removePanels without the call of delete
removePanelKeepsEntry(st, panel) ==
    LET released == IF panel \in DOMAIN st.panelListeners
                    THEN {st.panelListeners[panel]}
                    ELSE {}
    IN  [st EXCEPT !.live = @ \ released]

\* one round of the loop of removePanels; dispose(undefined) does nothing
removePanel(st, panel) ==
    LET released == IF panel \in DOMAIN st.panelListeners
                    THEN {st.panelListeners[panel]}
                    ELSE {}
    IN  [st EXCEPT !.live = @ \ released,
                   !.panelListeners = MapDelete(@, panel)]

RECURSIVE removePanelsLoop(_, _, _)
removePanelsLoop(st, batch, i) ==
    IF i > Len(batch)
    THEN st
    ELSE removePanelsLoop(removePanel(st, batch[i]), batch, i + 1)

\* removePanels(panels): [attached, st] afterwards
removePanels(st, batch, attached) ==
    [attached |-> superRemovePanels(attached, batch),
     st |-> removePanelsLoop(st, batch, 1)]

\* panel.onDidChange fires: every live listener of the panel runs
fireDidChange(st, panel, attached, isExpanded) ==
    IF \E r \in PanelSubscriptions(st.live) : r.of = panel
    THEN updateBreakpointsMaxSize(st, attached, isExpanded)
    ELSE st

notPanelVars == <<debugState, toolBarLocation, menuItems, progressVars,
                  debugToolbarMenu, memo, toDispose, disposed, titleArea,
                  created, menusCreated, nonInitialCalls>>

\* The host attaches the panels of `batch`.
AddPanels(batch) ==
    /\ ~disposed
    /\ Cardinality(PanelSubscriptions(live))
         + Cardinality(Range(batch) \ {BREAKPOINTS_VIEW_ID}) <= MaxSubscriptions
    /\ LET r == addPanels(PanelState, batch, panels, expanded)
       IN  /\ panels' = r.attached
           /\ StorePanels(r.st)
           /\ call' = Call("addPanels", batch, r.st.ran)
    /\ UNCHANGED <<expanded, minimumBodySize, notPanelVars>>

\* The host detaches the panels of `batch`.
RemovePanels(batch) ==
    /\ ~disposed
    /\ LET r == removePanels(PanelState, batch, panels)
       IN  /\ panels' = r.attached
           /\ StorePanels(r.st)
           /\ call' = Call("removePanels", batch, live \ r.st.live)
    /\ UNCHANGED <<expanded, minimumBodySize, notPanelVars>>

\* A panel is expanded or collapsed and fires its changed event.
SetExpanded(panel, value) ==
    /\ value # expanded[panel]
    /\ expanded' = [expanded EXCEPT ![panel] = value]
    /\ LET st == fireDidChange(PanelState, panel, panels, expanded')
       IN  /\ StorePanels(st)
           /\ call' = Call("setExpanded", panel, st.ran)
    /\ UNCHANGED <<panels, minimumBodySize, notPanelVars>>

\* A panel fires its changed event for a change of its layout.
PanelDidChange(panel) ==
    /\ LET st == fireDidChange(PanelState, panel, panels, expanded)
       IN  /\ StorePanels(st)
           /\ call' = Call("panelDidChange", panel, st.ran)
    /\ UNCHANGED <<panels, expanded, minimumBodySize, notPanelVars>>

\* --------------------------------------------------------------- disposal
\* dispose() of the base class: everything registered is released
dispose(lv, registered) == lv \ registered

Dispose ==
    /\ ~disposed
    /\ disposed' = TRUE
    /\ live' = dispose(live, toDispose)
    /\ call' = Call("dispose", <<>>, <<>>)
    /\ UNCHANGED <<debugState, toolBarLocation, menuItems, progressVars,
                   panelVars, debugToolbarMenu, memo, toDispose, titleArea,
                   created, menusCreated, nonInitialCalls>>

\* ------------------------------------------------------------ the machine
\* The state after the constructor: the three listeners are registered, no
\* panel is attached and the title area is not rendered yet.
Init ==
    /\ debugState \in States
    /\ toolBarLocation \in ToolBarLocations
    /\ menuItems = <<"continue", "stop">>
    /\ runners = <<>>
    /\ peakActive = 0
    /\ progressRunner = 0
    /\ breakpointView = Undefined
    /\ panelListeners = <<>>
    /\ debugToolbarMenu = NoMenu
    /\ memo = [k \in ActionKinds |-> 0]
    /\ toDispose = {StateListener, WorkbenchStateListener, ConfigurationListener}
    /\ disposed = FALSE
    /\ panels = {}
    /\ expanded = [p \in Panels |-> TRUE]
    /\ minimumBodySize \in [Panels -> 1..MaxBodySize]
    /\ \A p \in Panels \ {BREAKPOINTS_VIEW_ID} : minimumBodySize[p] = 1
    /\ maximumBodySize \in [Panels -> 1..POSITIVE_INFINITY]
    /\ \A p \in Panels \ {BREAKPOINTS_VIEW_ID} :
           maximumBodySize[p] = POSITIVE_INFINITY
    /\ maximumBodySize[BREAKPOINTS_VIEW_ID] \in
           {minimumBodySize[BREAKPOINTS_VIEW_ID], POSITIVE_INFINITY}
    /\ titleArea = "unrendered"
    /\ live = {StateListener, WorkbenchStateListener, ConfigurationListener}
    /\ created = [k \in ActionKinds |-> 0]
    /\ menusCreated = 0
    /\ nonInitialCalls = FALSE
    /\ call = Call("constructor", <<>>, <<>>)

ActionBarNext ==
    \/ \E state \in States : DidChangeState(state)
    \/ \E location \in ToolBarLocations : DidChangeConfiguration(location)
    \/ DidChangeWorkbenchState
    \/ \E items \in MenuContents : MenuDidChange(items)
    \/ GetActions
    \/ GetSecondaryActions

PanelsNext ==
    \/ \E batch \in Batches : AddPanels(batch)
    \/ \E batch \in Batches : RemovePanels(batch)
    \/ \E panel \in Panels, value \in BOOLEAN : SetExpanded(panel, value)
    \/ \E panel \in Panels : PanelDidChange(panel)

\* The action bar and the panels share no state but the set of live resources,
\* to which each adds and from which each removes its own, and disposal; the
\* two halves are therefore also explored on their own below.
Next == ActionBarNext \/ PanelsNext \/ Dispose

Spec == Init /\ [][Next]_vars

\* The action bar and the progress indicator alone: no panel is attached, and
\* the breakpoints panel keeps the sizes it was built with.
ActionBarInit ==
    /\ Init
    /\ minimumBodySize[BREAKPOINTS_VIEW_ID] = 1
    /\ maximumBodySize[BREAKPOINTS_VIEW_ID] = POSITIVE_INFINITY

ActionBarSpec == ActionBarInit /\ [][ActionBarNext \/ Dispose]_vars

\* The panels alone: the debug state and the configuration stay as they are
\* at construction.
PanelsInit ==
    /\ Init
    /\ debugState = "Inactive"
    /\ toolBarLocation = "docked"

PanelsSpec == PanelsInit /\ [][PanelsNext \/ Dispose]_vars

\* ------------------------------------------------------------------ claims
\* the action kinds of a returned action list, in order
Kinds(actions) == [i \in 1..Len(actions) |-> actions[i].of]

PanelOps == {"addPanels", "removePanels", "setExpanded", "panelDidChange"}

\* the size the sizing rule asks for: unbounded iff every attached panel other
\* than the breakpoints panel is collapsed
RuleSize ==
    IF \A q \in panels \ {BREAKPOINTS_VIEW_ID} : ~expanded[q]
    THEN POSITIVE_INFINITY
    ELSE minimumBodySize[BREAKPOINTS_VIEW_ID]

\* C1: a state-change notification to Initializing starts a new progress
\* indicator after ending (done()) the one that was active; at no program
\* point is more than one indicator of the viewlet active.
C1_ProgressRestarted ==
    /\ [](peakActive <= 1 /\ NumActive(runners) <= 1)
    /\ [][(/\ call'.op = "onDidChangeState"
           /\ call'.arg = "Initializing"
           /\ StateListener \in live)
          => /\ Len(runners') = Len(runners) + 1
             /\ runners'[Len(runners')].active
             /\ progressRunner' = Len(runners')
             /\ \A h \in 1..Len(runners) :
                    /\ ~runners'[h].active
                    /\ runners[h].active => runners'[h].done = runners[h].done + 1
         ]_vars

\* an Initializing notification arrived while an indicator was active: the
\* first was ended by it, the second is active
C1_Witness ==
    /\ call.op = "onDidChangeState"
    /\ call.arg = "Initializing"
    /\ Len(runners) = 2
    /\ ~runners[1].active /\ runners[1].done = 1
    /\ runners[2].active /\ progressRunner = 2

\* C2: attached with one other, expanded panel the breakpoints panel's
\* maximumBodySize is its minimumBodySize; when that panel collapses and fires
\* its changed event it is unbounded; whenever the recomputation has run with
\* the breakpoints panel attached, the size is unbounded iff every other
\* attached panel is collapsed, and minimumBodySize otherwise.
C2_SizingRule ==
    LET bp == BREAKPOINTS_VIEW_ID
    IN  /\ \A q \in Panels \ {bp} :
               (/\ call.op = "addPanels"
                /\ bp \in Range(call.arg)
                /\ panels = {bp, q}
                /\ expanded[q])
               => maximumBodySize[bp] = minimumBodySize[bp]
        /\ \A q \in Panels \ {bp} :
               (/\ call.op = "setExpanded"
                /\ call.arg = q
                /\ panels = {bp, q}
                /\ ~expanded[q])
               => maximumBodySize[bp] = POSITIVE_INFINITY
        /\ (call.op \in PanelOps /\ call.op # "removePanels" /\ call.val = TRUE
                /\ bp \in panels)
               => /\ maximumBodySize[bp] = RuleSize
                  /\ maximumBodySize[bp] = POSITIVE_INFINITY
                        <=> \A q \in panels \ {bp} : ~expanded[q]

\* the only other attached panel has just collapsed and the breakpoints panel
\* became unbounded
C2_Witness ==
    /\ call.op = "setExpanded"
    /\ call.arg = VARIABLES_VIEW_ID
    /\ call.val = TRUE
    /\ panels = {BREAKPOINTS_VIEW_ID, VARIABLES_VIEW_ID}
    /\ ~expanded[VARIABLES_VIEW_ID]
    /\ maximumBodySize[BREAKPOINTS_VIEW_ID] = POSITIVE_INFINITY

\* C3: after every addPanels, every removePanels and every changed event of an
\* attached sibling, an attached breakpoints panel has the size the rule asks
\* for.
C3_RecomputedOnEveryChange ==
    (/\ BREAKPOINTS_VIEW_ID \in panels
     /\ \/ call.op \in {"addPanels", "removePanels"}
        \/ /\ call.op \in {"setExpanded", "panelDidChange"}
           /\ call.arg \in panels \ {BREAKPOINTS_VIEW_ID})
    => maximumBodySize[BREAKPOINTS_VIEW_ID] = RuleSize

\* C4: showInitialDebugActions is true when the state is Inactive, true when
\* the toolbar location is not "docked", and false for a state other than
\* Inactive with the location "docked".
C4_ShowInitialDebugActions ==
    LET shown == showInitialDebugActions(debugState, toolBarLocation)
    IN  /\ debugState = "Inactive" => shown
        /\ toolBarLocation # "docked" => shown
        /\ (debugState \in {"Initializing", "Stopped", "Running"}
                /\ toolBarLocation = "docked") => ~shown

\* getActions has just read the getter in a session that runs with a docked
\* toolbar
C4_Witness ==
    /\ call.op = "getActions"
    /\ debugState = "Running"
    /\ toolBarLocation = "docked"
    /\ ~showInitialDebugActions(debugState, toolBarLocation)

\* C5: getActions returns [Start, Configure, ToggleRepl] when the state is
\* Inactive or the location is not "docked", and the actions the toolbar menu
\* contributes otherwise, whatever was called before.
C5_PrimaryActions ==
    call.op = "getActions" =>
        IF debugState = "Inactive" \/ toolBarLocation # "docked"
        THEN /\ Kinds(call.val) = <<"StartAction", "ConfigureAction", "ToggleReplAction">>
             /\ \A i \in 1..Len(call.val) : call.val[i].kind = "action"
        ELSE /\ Kinds(call.val) = menuItems
             /\ \A i \in 1..Len(call.val) : call.val[i].kind = "menuItemAction"

\* the initial set is returned although an earlier call created the menu
C5_Witness ==
    /\ call.op = "getActions"
    /\ debugToolbarMenu # NoMenu
    /\ debugState = "Stopped"
    /\ toolBarLocation = "floating"
    /\ Kinds(call.val) = <<"StartAction", "ConfigureAction", "ToggleReplAction">>

\* C6: getSecondaryActions returns nothing when the state is Inactive or the
\* location is not "docked", and [SelectAndStart, Configure, ToggleRepl]
\* otherwise: it is non-empty exactly when the primary set is the menu's.
C6_SecondaryActions ==
    call.op = "getSecondaryActions" =>
        /\ IF debugState = "Inactive" \/ toolBarLocation # "docked"
           THEN call.val = <<>>
           ELSE /\ Kinds(call.val) =
                       <<"SelectAndStartAction", "ConfigureAction", "ToggleReplAction">>
                /\ \A i \in 1..Len(call.val) : call.val[i].kind = "action"
        /\ LET primary == getActions(Owned, debugState, toolBarLocation, menuItems)
           IN  Len(call.val) > 0 <=>
                   primary.val = DebugToolbarGetActions(primary.o.debugToolbarMenu,
                                                        menuItems)

\* the secondary set of a running session with a docked toolbar
C6_Witness ==
    /\ call.op = "getSecondaryActions"
    /\ debugState = "Running"
    /\ toolBarLocation = "docked"
    /\ Len(call.val) = 3

\* C7: removePanels removes the entry of each panel of its batch and disposes
\* the subscription the entry held; a call for panels without an entry, and a
\* second call for the same panels, changes neither the map nor any
\* subscription.
C7_RemovePanels ==
    [][call'.op = "removePanels" =>
          /\ \A p \in Range(call'.arg) :
                 /\ p \notin DOMAIN panelListeners'
                 /\ p \in DOMAIN panelListeners => panelListeners[p] \notin live'
          /\ \A p \in DOMAIN panelListeners \ Range(call'.arg) :
                 /\ p \in DOMAIN panelListeners'
                 /\ panelListeners'[p] = panelListeners[p]
                 /\ panelListeners[p] \in live => panelListeners[p] \in live'
          /\ Range(call'.arg) \cap DOMAIN panelListeners = {}
                 => panelListeners' = panelListeners /\ live' = live
          /\ (call.op = "removePanels" /\ call.arg = call'.arg)
                 => panelListeners' = panelListeners /\ live' = live
      ]_vars

\* a panel other than the breakpoints panel was detached and its subscription
\* released
C7_Witness ==
    /\ call.op = "removePanels"
    /\ call.arg = <<VARIABLES_VIEW_ID>>
    /\ call.val # {}
    /\ \A r \in call.val : r.of = VARIABLES_VIEW_ID /\ r \notin live

\* C8: the keys of the panel listener map are the attached panels other than
\* the breakpoints panel, each with a live subscription of its own panel.
C8_PanelListenerKeys ==
    /\ DOMAIN panelListeners = panels \ {BREAKPOINTS_VIEW_ID}
    /\ \A p \in DOMAIN panelListeners :
           /\ panelListeners[p].of = p
           /\ panelListeners[p] \in live

\* panels were attached and one detached again
C8_Witness ==
    /\ call.op = "removePanels"
    /\ call.val # {}
    /\ panels = {BREAKPOINTS_VIEW_ID, VARIABLES_VIEW_ID}
    /\ DOMAIN panelListeners = {VARIABLES_VIEW_ID}

\* C9: once the viewlet is disposed, no subscription, menu or action it
\* created is live.
C9_AllReleasedOnDispose == disposed => live = {}

\* C10: createMenu is called at most once, not at all while every getActions
\* call was in initial mode, and the menu is registered for release.
C10_MenuCreatedOnce ==
    /\ menusCreated <= 1
    /\ ~nonInitialCalls => menusCreated = 0 /\ debugToolbarMenu = NoMenu
    /\ debugToolbarMenu # NoMenu =>
           /\ debugToolbarMenu \in toDispose
           /\ disposed => debugToolbarMenu \notin live

\* getActions is called in toolbar mode after a refresh of the title area had
\* created the menu
C10_Witness ==
    /\ call.op = "getActions"
    /\ titleArea = "toolbar"
    /\ debugState # "Inactive" /\ toolBarLocation = "docked"
    /\ menusCreated = 1
    /\ debugToolbarMenu \in live

\* C11: each of the four actions is instantiated at most once; getActions and
\* getSecondaryActions return that one instance on every call (Configure and
\* ToggleRepl are the same instances in both sets), and the instance is
\* registered for release.
C11_ActionsMemoized ==
    /\ \A k \in ActionKinds :
           /\ created[k] <= 1
           /\ memo[k] = created[k]
           /\ memo[k] # 0 =>
                  /\ Instance(Owned, k) \in toDispose
                  /\ disposed => Instance(Owned, k) \notin live
    /\ (call.op \in {"getActions", "getSecondaryActions"}) =>
           \A i \in 1..Len(call.val) :
               call.val[i].kind = "action" =>
                   /\ call.val[i] = Resource("action", call.val[i].of, 1)
                   /\ call.val[i] = Instance(Owned, call.val[i].of)
                   /\ call.val[i] \in toDispose

\* the secondary set is returned after the initial primary set had created
\* Configure and ToggleRepl
C11_Witness ==
    /\ call.op = "getSecondaryActions"
    /\ Len(call.val) = 3
    /\ created["StartAction"] = 1
    /\ created["SelectAndStartAction"] = 1
    /\ call.val[2] = Resource("action", "ConfigureAction", 1)
    /\ call.val[3] = Resource("action", "ToggleReplAction", 1)

\* C12: this.breakpointView is set iff the breakpoints panel is attached, and
\* the sizing rule never writes the size of a detached breakpoints panel.
C12_BreakpointViewAttached ==
    /\ breakpointView # Undefined <=> BREAKPOINTS_VIEW_ID \in panels
    /\ breakpointView # Undefined => breakpointView \in panels
    /\ (call.op \in {"addPanels", "setExpanded", "panelDidChange"}
            /\ call.val = TRUE) => BREAKPOINTS_VIEW_ID \in panels

\* C13: done() is called at most once on each handle show() returned.
C13_DoneOncePerHandle ==
    \A h \in 1..Len(runners) : runners[h].done <= 1

\* C14: while the notifications reach the handler, an indicator is active
\* only in state Initializing: every notification ends the indicators that
\* were active before it.
C14_ActiveOnlyWhileInitializing ==
    /\ []((StateListener \in live /\ debugState # "Initializing")
              => NumActive(runners) = 0)
    /\ [][(call'.op = "onDidChangeState" /\ StateListener \in live)
              => \A h \in 1..Len(runners) : ~runners'[h].active
         ]_vars

\* the notification after Initializing has ended the indicator
C14_Witness ==
    /\ call.op = "onDidChangeState"
    /\ debugState = "Running"
    /\ StateListener \in live
    /\ progressRunner = 1
    /\ ~runners[1].active /\ runners[1].done = 1

\* C15: the mode the title area shows since its last refresh is the current
\* value of showInitialDebugActions; a state change with a location other than
\* "docked" does not refresh, one with "docked" does.
C15_TitleAreaNotStale ==
    /\ []((~disposed /\ titleArea # "unrendered")
              => (titleArea = "initial"
                     <=> (debugState = "Inactive" \/ toolBarLocation # "docked")))
    /\ [][(call'.op = "onDidChangeState" /\ StateListener \in live)
              => IF toolBarLocation # "docked"
                 THEN /\ titleArea' = titleArea
                      /\ memo' = memo
                      /\ menusCreated' = menusCreated
                 ELSE titleArea' = IF debugState' = "Inactive"
                                   THEN "initial" ELSE "toolbar"
         ]_vars

\* a state change with a floating toolbar skipped the refresh and the title
\* area still shows the right mode
C15_Witness ==
    /\ call.op = "onDidChangeState"
    /\ ~disposed
    /\ toolBarLocation = "floating"
    /\ debugState = "Running"
    /\ titleArea = "initial"

\* C16: the live panel subscriptions are exactly the values of the panel
\* listener map, one per entry.
C16_NoSubscriptionLeaked ==
    /\ PanelSubscriptions(live) = {panelListeners[p] : p \in DOMAIN panelListeners}
    /\ Cardinality(PanelSubscriptions(live)) = Cardinality(DOMAIN panelListeners)

====
